---- MODULE Spec2Model ----
(***************************************************************************)
(* A model of the deck-sampling code of mtg/decks.py: the memoized card    *)
(* universe, Deck construction (name cleanup, universe validation,         *)
(* complements) and Deck.choice (shape and capacity checks, the            *)
(* force_unique backfill loop and the plain sampling path).                *)
(*                                                                         *)
(* Card names are strings; a string is modelled as a sequence of           *)
(* one-character strings so that replace / split / strip act on it the way *)
(* the Python string methods do.                                           *)
(***************************************************************************)
EXTENDS Integers, Sequences, FiniteSets, TLC

VARIABLES
    CARD_UNIVERSE,   \* decks._CARD_UNIVERSE: the process-wide memo
    deck,            \* the Deck object most recently constructed
    ctor,            \* arguments and locals of the Deck.__init__ call that
                     \* built it, kept until the deck is first sampled
    pc,              \* where the current Deck.choice call stands
    size,            \* Deck.choice argument: (rows, cols)
    n_in_deck,       \* Deck.choice argument
    n_not_in_deck,   \* Deck.choice argument
    force_unique,    \* Deck.choice argument
    no_lands_arg,    \* Deck.choice argument no_lands as passed: None/False/True
    no_lands,        \* the local no_lands after line 194
    c,               \* the local array c (and, once returned, the result)
    sampled,         \* has np.random.choice been called during this call
    err,             \* the exception the call ended with, if any
    decks,           \* DeckPool.decks
    allcards,        \* DeckSampler.allcards
    op,              \* the DeckPool / DeckSampler call being made
    ret,             \* how that call ended
    tagdict,         \* Tags._tagdict
    tags,            \* Tags.tags, the nx.DiGraph
    tret,            \* how Tags.__init__ ended
    trav             \* the calls of child_parent_iter made and what they yielded

vars == <<CARD_UNIVERSE, deck, ctor, pc, size, n_in_deck, n_not_in_deck,
          force_unique, no_lands_arg, no_lands, c, sampled, err,
          decks, allcards, op, ret, tagdict, tags, tret, trav>>

callvars == <<pc, size, n_in_deck, n_not_in_deck, force_unique,
              no_lands_arg, no_lands, c, sampled, err>>

poolvars == <<decks, allcards, op, ret>>

tagvars == <<tagdict, tags, tret, trav>>

-----------------------------------------------------------------------------
(* Bounds of the model *)

\* the largest number of raw names handed to one Deck constructor
MaxRaw == 2

\* the largest number of rows asked of Deck.choice
MaxRows == 2

-----------------------------------------------------------------------------
(* Strings *)

\* code points of the characters that occur in the modelled names
Ord(ch) ==
    CASE ch = " " -> 32  [] ch = "/" -> 47  [] ch = "A" -> 65
      [] ch = "E" -> 69  [] ch = "F" -> 70  [] ch = "O" -> 79
      [] ch = "S" -> 83  [] ch = "a" -> 97  [] ch = "c" -> 99
      [] ch = "e" -> 101 [] ch = "n" -> 110 [] ch = "x" -> 120
      [] ch = "copyright" -> 169 [] ch = "A_tilde" -> 195

\* str.__lt__: lexicographic comparison by code point
RECURSIVE StrLess(_, _)
StrLess(s, t) ==
    IF t = <<>> THEN FALSE
    ELSE IF s = <<>> THEN TRUE
    ELSE IF Head(s) = Head(t) THEN StrLess(Tail(s), Tail(t))
    ELSE Ord(Head(s)) < Ord(Head(t))

\* str.replace(old, new): leftmost non-overlapping occurrences
RECURSIVE StrReplace(_, _, _)
StrReplace(s, old, new) ==
    IF Len(s) < Len(old) THEN s
    ELSE IF SubSeq(s, 1, Len(old)) = old
         THEN new \o StrReplace(SubSeq(s, Len(old) + 1, Len(s)), old, new)
         ELSE <<Head(s)>> \o StrReplace(Tail(s), old, new)

\* str.split(sep) for a one-character separator: the list of parts
RECURSIVE StrSplit(_, _)
StrSplit(s, sep) ==
    IF \A i \in 1..Len(s) : s[i] # sep THEN <<s>>
    ELSE LET i == CHOOSE j \in 1..Len(s) :
                      s[j] = sep /\ \A k \in 1..(j - 1) : s[k] # sep
         IN  <<SubSeq(s, 1, i - 1)>> \o StrSplit(SubSeq(s, i + 1, Len(s)), sep)

\* str.strip(): drop leading and trailing whitespace
RECURSIVE StrStrip(_)
StrStrip(s) ==
    IF s = <<>> THEN s
    ELSE IF Head(s) = " " THEN StrStrip(Tail(s))
    ELSE IF s[Len(s)] = " " THEN StrStrip(SubSeq(s, 1, Len(s) - 1))
    ELSE s

Range(f) == {f[i] : i \in DOMAIN f}

-----------------------------------------------------------------------------
(* Card names *)

Ae     == <<"A", "e">>
Ox     == <<"O", "x">>
Fen    == <<"F", "e", "n">>
Seance == <<"S", "e", "a", "n", "c", "e">>
SeanceRemapped == <<"S", "A_tilde", "copyright", "a", "n", "c", "e">>

\* the raw names a deck list may hold
RawNames ==
    { Ox,
      Fen,
      <<"A", "E">>,
      Seance,
      <<"O", "x", " ", "/", "/", " ", "F", "e", "n">> }

\* cards.all_card_names(ignore_lands): every known card name, or every known
\* name that is not of type Land
Lands == {Fen}
AllCardNames(ignore_lands) ==
    IF ignore_lands THEN {Ae, Ox, Fen} \ Lands ELSE {Ae, Ox, Fen}

-----------------------------------------------------------------------------
(* The memoized universe *)

NoUniverse == [built |-> FALSE, no_lands |-> {}, w_lands |-> {}]

\* a get_card_universe that drops a memo it finds, so that the next call
\* builds it again
MemoAfterDropped(memo) ==
    IF ~memo.built
    THEN [built |-> TRUE,
          no_lands |-> AllCardNames(TRUE),
          w_lands |-> AllCardNames(FALSE)]
    ELSE NoUniverse

\* _CARD_UNIVERSE after a call of get_card_universe
MemoAfter(memo) ==
    IF ~memo.built
    THEN [built |-> TRUE,
          no_lands |-> AllCardNames(TRUE),
          w_lands |-> AllCardNames(FALSE)]
    ELSE memo

\* a get_card_universe that answers with the no-lands set while it builds
GetCardUniverseWrongOnBuild(memo, k) ==
    IF ~memo.built THEN AllCardNames(TRUE) ELSE memo[k]

\* the value get_card_universe(k) returns
GetCardUniverse(memo, k) == MemoAfter(memo)[k]

-----------------------------------------------------------------------------
(* Deck construction *)

\* Deck._split_two_part_cards
SplitTwoPartCards(cardnames) ==
    UNION { {StrStrip(p) : p \in Range(StrSplit(StrReplace(cardname, <<"/", "/">>, <<"/">>), "/"))}
            : cardname \in cardnames }

\* Deck._fix_weird_characters
FixWeirdCharacters(cardnames) ==
    {StrReplace(n, <<"A", "E">>, <<"A", "e">>) : n \in cardnames}

\* Deck._apply_generic_remapping
ApplyGenericRemapping(cardnames) ==
    {IF n = Seance THEN SeanceRemapped ELSE n : n \in cardnames}

\* Deck._clean_cards
CleanCards(cardnames) ==
    ApplyGenericRemapping(FixWeirdCharacters(SplitTwoPartCards(cardnames)))

\* np.array(list(s)) of a set: the elements once each, in the set's
\* iteration order, which is arbitrary
ArraysOf(s) ==
    {a \in [1..Cardinality(s) -> s] : \A i, j \in 1..Cardinality(s) : a[i] = a[j] => i = j}

\* the card_universe arguments tried: None, an empty list, a list of names
UniverseArgs ==
    { <<"None", {}>>, <<"list", {}>>, <<"list", {Ox, SeanceRemapped}>> }

\* `x or default` on an iterable argument: None and empty are falsy
Falsy(arg) == arg[1] = "None" \/ arg[2] = {}

\* (rebuilt: the call before it had the same cardnames and card_universe)
NoCtor == [live |-> FALSE, cardnames |-> {}, card_universe |-> {},
           cleaned |-> {}, rebuilt |-> FALSE]

NoDeck ==
    [built |-> FALSE, name |-> "", card_universe |-> {},
     ignore_lands |-> TRUE,
     cardnames |-> <<>>, nonland_cardnames |-> <<>>,
     compliment_cardnames |-> <<>>, nonland_compliment_cardnames |-> <<>>,
     dropcards |-> {}]

\* lines 97-104 with the discard left out
DroppedKept(cleaned, dropcards) == cleaned

\* lines 100-104: the names that stay in self.cardnames
AfterDrop(cleaned, dropcards) == cleaned \ dropcards

\* lines 113-114 computed against the non-land names only
ComplimentOfNonland(card_universe, cardnames) ==
    card_universe \ (cardnames \ Lands)

\* lines 113-114: set(self.card_universe).difference(self.cardnames)
Compliment(card_universe, cardnames) == card_universe \ cardnames

\* lines 100: the names not in the universe, with the test inverted
DropcardsInverted(cleaned, card_universe) == cleaned \cap card_universe

\* line 100: self.cardnames.difference(set(self.card_universe))
Dropcards(cleaned, card_universe) == cleaned \ card_universe

\* the name arguments tried: None and the empty string
NameArgs == {"None", ""}

\* lines 87-117 of Deck.__init__: the sets it computes, and the memo it
\* leaves behind
DeckSets(memo, raw, uarg) ==
    LET card_universe == IF Falsy(uarg)
                         THEN GetCardUniverse(memo, "w_lands")
                         ELSE uarg[2]
        memo1     == IF Falsy(uarg) THEN MemoAfter(memo) ELSE memo
        cleaned   == CleanCards(raw)
        dropcards == Dropcards(cleaned, card_universe)
        cardnames == AfterDrop(cleaned, dropcards)
        nl        == GetCardUniverse(memo1, "no_lands")
        compl     == Compliment(card_universe, cardnames)
    IN  [card_universe |-> card_universe, cleaned |-> cleaned,
         dropcards |-> dropcards, cardnames |-> cardnames,
         nonland |-> cardnames \cap nl, compl |-> compl,
         nlcompl |-> compl \cap nl, memo |-> MemoAfter(memo1)]

\* every Deck that Deck(cardnames=raw, name=name, card_universe=uarg,
\* ignore_lands=ignore) can be: one per order of its four arrays
DecksBuilt(memo, raw, name, uarg, ignore) ==
    LET s == DeckSets(memo, raw, uarg)
    IN  {[built |-> TRUE,
          name |-> IF name = "None" THEN "" ELSE name,
          card_universe |-> s.card_universe,
          ignore_lands |-> ignore,
          cardnames |-> a1, nonland_cardnames |-> a2,
          compliment_cardnames |-> a3,
          nonland_compliment_cardnames |-> a4,
          dropcards |-> s.dropcards] :
         a1 \in ArraysOf(s.cardnames), a2 \in ArraysOf(s.nonland),
         a3 \in ArraysOf(s.compl), a4 \in ArraysOf(s.nlcompl)}

\* Deck.__init__
Construct ==
    /\ pc = "idle"
    /\ \E raw \in {r \in SUBSET RawNames : Cardinality(r) <= MaxRaw},
          name \in NameArgs, uarg \in UniverseArgs, ignore \in BOOLEAN :
         /\ CARD_UNIVERSE' = DeckSets(CARD_UNIVERSE, raw, uarg).memo
         /\ deck' \in DecksBuilt(CARD_UNIVERSE, raw, name, uarg, ignore)
         /\ ctor' = [live |-> TRUE, cardnames |-> raw,
                     card_universe |-> uarg[2],
                     cleaned |-> DeckSets(CARD_UNIVERSE, raw, uarg).cleaned,
                     rebuilt |-> /\ ctor.live
                                 /\ ctor.cardnames = raw
                                 /\ ctor.card_universe = uarg[2]]
    /\ UNCHANGED callvars
    /\ UNCHANGED poolvars
    /\ UNCHANGED tagvars

-----------------------------------------------------------------------------
(* Deck.choice *)

\* the column counts asked of Deck.choice: single cards and pairs
Columns == {1, 2}

\* the values of n_in_deck and of n_not_in_deck tried
Splits == {0, 1, 2}

\* the no_lands arguments tried
NoLandsArgs == {"None", "False", "True"}

\* Deck.num_cards
NumCards(d) == Len(d.cardnames)

\* a max_unique_pairs that counts the unordered pairs
MaxUniquePairsUnordered(d) == (NumCards(d) * (NumCards(d) - 1)) \div 2

\* Deck.max_unique_pairs
MaxUniquePairs(d) == NumCards(d) * (NumCards(d) - 1)

\* line 194: no_lands = no_lands or self.ignore_lands
NoLandsOr(arg, ignore_lands) == IF arg = "True" THEN TRUE ELSE ignore_lands

\* line 197 comparing against the in-deck columns only
ShapeMismatchInDeckOnly(nin, nnot, sz) == ~(nin = sz[2])

\* line 197: not n_in_deck + n_not_in_deck == size[1]
\* (sz[1] is the code's size[0], the rows; sz[2] is size[1], the columns)
ShapeMismatch(nin, nnot, sz) == ~(nin + nnot = sz[2])

\* line 213 with the comparison off by one
CapacityExceededOffByOne(sz, d) == sz[2] = 2 /\ sz[1] > MaxUniquePairs(d) + 1

\* line 213: size[1] == 2 and size[0] > self.max_unique_pairs
CapacityExceeded(sz, d) == sz[2] = 2 /\ sz[1] > MaxUniquePairs(d)

\* lines 223-224, 251-253: the array the in-deck columns are drawn from
PopIn(d, nl) == IF nl THEN d.nonland_cardnames ELSE d.cardnames

\* lines 229-231, 258-260: the array the out-of-deck columns are drawn from
PopNot(d, nl) ==
    IF nl THEN d.nonland_compliment_cardnames ELSE d.compliment_cardnames

\* np.random.choice(a, (rows, cols)) raises ValueError on an empty a; when
\* no sample is taken (rows * cols = 0) newer numpy returns the empty array
\* and older numpy still raises
ChoiceMustRaise(a, rows, cols) == Len(a) = 0 /\ rows * cols > 0
ChoiceMayRaise(a, rows, cols) == Len(a) = 0

\* the arrays np.random.choice(a, (rows, cols)) can return
RandomChoice(a, rows, cols) == [1..rows -> [1..cols -> Range(a)]]

\* lines 221-238 and 249-264: the side-by-side concatenation of the in-deck
\* draw and the out-of-deck draw, every array it can be
Batches(d, nl, rows, nin, nnot) ==
    {[i \in 1..rows |-> cin[i] \o cnot[i]] :
        cin \in RandomChoice(PopIn(d, nl), rows, nin),
        cnot \in RandomChoice(PopNot(d, nl), rows, nnot)}

\* would one of the draws of a batch raise / can it raise
BatchMustRaise(d, nl, rows, nin, nnot) ==
    \/ nin > 0 /\ ChoiceMustRaise(PopIn(d, nl), rows, nin)
    \/ nnot > 0 /\ ChoiceMustRaise(PopNot(d, nl), rows, nnot)
BatchMayRaise(d, nl, rows, nin, nnot) ==
    \/ nin > 0 /\ ChoiceMayRaise(PopIn(d, nl), rows, nin)
    \/ nnot > 0 /\ ChoiceMayRaise(PopNot(d, nl), rows, nnot)

\* rows compared the way np.unique(axis=0) orders them
RECURSIVE RowLess(_, _)
RowLess(r, s) ==
    IF s = <<>> THEN FALSE
    ELSE IF r = <<>> THEN TRUE
    ELSE IF Head(r) = Head(s) THEN RowLess(Tail(r), Tail(s))
    ELSE StrLess(Head(r), Head(s))

\* the rows of a set in ascending order
RECURSIVE SortedRows(_)
SortedRows(rs) ==
    IF rs = {} THEN <<>>
    ELSE LET m == CHOOSE r \in rs : \A s \in rs : ~RowLess(s, r)
         IN  <<m>> \o SortedRows(rs \ {m})

\* a sort of the rows that keeps the duplicates
RECURSIVE SortKeepingDuplicates(_)
SortKeepingDuplicates(a) ==
    IF a = <<>> THEN <<>>
    ELSE LET i == CHOOSE j \in 1..Len(a) : \A k \in 1..Len(a) : ~RowLess(a[k], a[j])
         IN  <<a[i]>> \o SortKeepingDuplicates(
                 [k \in 1..(Len(a) - 1) |-> IF k < i THEN a[k] ELSE a[k + 1]])

\* np.unique(a, axis=0): the distinct rows of a, sorted
Unique(a) == SortedRows(Range(a))

\* Deck.choice from its entry to the return, the raise or the first test of
\* the while loop
DeckChoice ==
    /\ deck.built
    /\ pc = "idle"
    /\ \E rows \in 0..MaxRows, cols \in Columns,
          nin \in Splits, nnot \in Splits,
          fu \in BOOLEAN, nla \in NoLandsArgs :
         LET nl == NoLandsOr(nla, deck.ignore_lands)
             sz == <<rows, cols>>
         IN
         /\ size' = sz
         /\ n_in_deck' = nin
         /\ n_not_in_deck' = nnot
         /\ force_unique' = fu
         /\ no_lands_arg' = nla
         /\ no_lands' = nl
         /\ IF ShapeMismatch(nin, nnot, sz)
            THEN /\ pc' = "raised" /\ err' = "DeckError_shape"
                 /\ c' = <<>> /\ sampled' = FALSE
            ELSE IF fu
            THEN IF CapacityExceeded(sz, deck)
                 THEN /\ pc' = "raised" /\ err' = "DeckError_capacity"
                      /\ c' = <<>> /\ sampled' = FALSE
                 ELSE /\ sampled' = TRUE
                      /\ \/ /\ BatchMayRaise(deck, nl, rows, nin, nnot)
                            /\ pc' = "raised" /\ err' = "ValueError"
                            /\ c' = <<>>
                         \/ /\ ~BatchMustRaise(deck, nl, rows, nin, nnot)
                            /\ \E b \in Batches(deck, nl, rows, nin, nnot) :
                                 c' = Unique(b)
                            /\ pc' = IF Len(c') < rows THEN "loop"
                                     ELSE "returned"
                            /\ err' = "none"
            ELSE /\ sampled' = TRUE
                 /\ \/ /\ ChoiceMayRaise(deck.cardnames, rows, cols)
                       /\ pc' = "raised" /\ err' = "ValueError"
                       /\ c' = <<>>
                    \/ /\ ~ChoiceMustRaise(deck.cardnames, rows, cols)
                       /\ c' \in RandomChoice(deck.cardnames, rows, cols)
                       /\ pc' = "returned" /\ err' = "none"
    /\ ctor' = NoCtor
    /\ UNCHANGED <<CARD_UNIVERSE, deck>>
    /\ UNCHANGED poolvars
    /\ UNCHANGED tagvars

\* a loop pass that draws a batch of the full requested size
BackfillFullBatch ==
    /\ pc = "loop"
    /\ \E b \in Batches(deck, no_lands, size[1], n_in_deck, n_not_in_deck) :
         c' = Unique(c \o b)
    /\ pc' = IF Len(c') < size[1] THEN "loop" ELSE "returned"
    /\ UNCHANGED <<CARD_UNIVERSE, deck, ctor, size, n_in_deck, n_not_in_deck,
                   force_unique, no_lands_arg, no_lands, sampled, err>>
    /\ UNCHANGED poolvars
    /\ UNCHANGED tagvars

\* a loop pass that also took the drawn cards out of the deck
BackfillConsumingDeck ==
    /\ pc = "loop"
    /\ \E b \in Batches(deck, no_lands, size[1] - Len(c),
                        n_in_deck, n_not_in_deck) :
         /\ c' = Unique(c \o b)
         /\ deck' = [deck EXCEPT !.cardnames =
                        SelectSeq(deck.cardnames,
                                  LAMBDA x : \A i \in 1..Len(b) :
                                               x # b[i][1])]
    /\ pc' = IF Len(c') < size[1] THEN "loop" ELSE "returned"
    /\ UNCHANGED <<CARD_UNIVERSE, ctor, size, n_in_deck, n_not_in_deck,
                   force_unique, no_lands_arg, no_lands, sampled, err>>
    /\ UNCHANGED poolvars
    /\ UNCHANGED tagvars

\* one pass of the while loop of lines 244-267
Backfill ==
    /\ pc = "loop"
    /\ \E b \in Batches(deck, no_lands, size[1] - Len(c),
                        n_in_deck, n_not_in_deck) :
         c' = Unique(c \o b)
    /\ pc' = IF Len(c') < size[1] THEN "loop" ELSE "returned"
    /\ UNCHANGED <<CARD_UNIVERSE, deck, ctor, size, n_in_deck, n_not_in_deck,
                   force_unique, no_lands_arg, no_lands, sampled, err>>
    /\ UNCHANGED poolvars
    /\ UNCHANGED tagvars

\* the call is over: the caller has the array or the exception, and the
\* frame of Deck.choice is gone
ChoiceExit ==
    /\ pc \in {"returned", "raised"}
    /\ pc' = "idle"
    /\ size' = <<0, 0>>
    /\ n_in_deck' = 0
    /\ n_not_in_deck' = 0
    /\ force_unique' = FALSE
    /\ no_lands_arg' = "None"
    /\ no_lands' = FALSE
    /\ c' = <<>>
    /\ sampled' = FALSE
    /\ err' = "none"
    /\ UNCHANGED <<CARD_UNIVERSE, deck, ctor>>
    /\ UNCHANGED poolvars
    /\ UNCHANGED tagvars

\* a bare call of get_card_universe(k)
GetCardUniverseCall ==
    /\ pc = "idle"
    /\ CARD_UNIVERSE' = MemoAfter(CARD_UNIVERSE)
    /\ UNCHANGED <<deck, ctor, callvars>>
    /\ UNCHANGED poolvars
    /\ UNCHANGED tagvars

-----------------------------------------------------------------------------
(* Deck.choice as its callers see it *)

Returned(a) == [status |-> "returned", c |-> a, err |-> "none"]
Raised(e)   == [status |-> "raised", c |-> <<>>, err |-> e]
\* the call that never comes back: the while loop cannot reach its size
Hung        == [status |-> "hung", c |-> <<>>, err |-> "none"]

\* the rows one draw of lines 221-238 can give
RowSpace(d, nl, nin, nnot) ==
    {b[1] : b \in Batches(d, nl, 1, nin, nnot)}

\* every way a call d.choice(sz, n_in_deck=nin, n_not_in_deck=nnot,
\* force_unique=fu, no_lands=nla) can end.  With force_unique the loop of
\* lines 244-267 leaves only when c holds sz[1] distinct rows, which
\* np.unique has sorted: any sz[1] distinct rows of the row space, and no
\* return at all when the row space has fewer
ChoiceOutcomes(d, sz, nin, nnot, fu, nla) ==
    LET nl == NoLandsOr(nla, d.ignore_lands)
    IN  IF ShapeMismatch(nin, nnot, sz)
        THEN {Raised("DeckError_shape")}
        ELSE IF fu
        THEN IF CapacityExceeded(sz, d)
             THEN {Raised("DeckError_capacity")}
             ELSE (IF BatchMayRaise(d, nl, sz[1], nin, nnot)
                   THEN {Raised("ValueError")} ELSE {})
                  \cup
                  (IF BatchMustRaise(d, nl, sz[1], nin, nnot) THEN {}
                   ELSE IF Cardinality(RowSpace(d, nl, nin, nnot)) < sz[1]
                   THEN {Hung}
                   ELSE {Returned(SortedRows(rs)) :
                           rs \in {x \in SUBSET RowSpace(d, nl, nin, nnot) :
                                     Cardinality(x) = sz[1]}})
        ELSE (IF ChoiceMayRaise(d.cardnames, sz[1], sz[2])
              THEN {Raised("ValueError")} ELSE {})
             \cup
             (IF ChoiceMustRaise(d.cardnames, sz[1], sz[2]) THEN {}
              ELSE {Returned(a) :
                      a \in RandomChoice(d.cardnames, sz[1], sz[2])})

-----------------------------------------------------------------------------
(* DeckPool *)

\* the largest number of members of a DeckPool
MaxDecks == 3

\* the largest number of rows asked of DeckPool.choice
MaxPoolRows == 4

\* the memo once a Deck has been constructed
BuiltUniverse == MemoAfter(NoUniverse)

\* ascending arrays: the one order of a Deck's arrays the pool's decks take
Ascending(a) == \A i, j \in 1..Len(a) : i < j => StrLess(a[i], a[j])

\* Deck(cardnames=raw, ignore_lands=ignore)
DeckOf(raw, ignore) ==
    CHOOSE d \in DecksBuilt(BuiltUniverse, raw, "None", <<"None", {}>>,
                            ignore) :
        /\ Ascending(d.cardnames)
        /\ Ascending(d.nonland_cardnames)
        /\ Ascending(d.compliment_cardnames)
        /\ Ascending(d.nonland_compliment_cardnames)

\* the decks handed to a pool: one card with ignore_lands=False; two cards;
\* a card and a land
PoolDecks ==
    { DeckOf({Ox}, FALSE),
      DeckOf({Ox, <<"A", "E">>}, TRUE),
      DeckOf({<<"O", "x", " ", "/", "/", " ", "F", "e", "n">>}, TRUE) }

\* a member of DeckPool.decks: a Deck, or whatever else add_decks let in
Member(kind, d) == [kind |-> kind, deck |-> d]

\* lists of decks up to a length
DeckLists(n) == UNION {[1..k -> PoolDecks] : k \in 0..n}

\* the add_decks arguments tried: a Deck, a list of Decks, an int, a str
AddArgs ==
    {[kind |-> "Deck", items |-> <<Member("Deck", d)>>] : d \in PoolDecks}
    \cup {[kind |-> "list",
           items |-> [i \in 1..Len(l) |-> Member("Deck", l[i])]] :
            l \in DeckLists(MaxDecks)}
    \cup {[kind |-> "int", items |-> <<Member("int", NoDeck)>>],
          [kind |-> "str", items |-> <<Member("chr", NoDeck)>>]}

\* does `list += arg` take arg (an iterable) or raise TypeError
Iterable(arg) == arg.kind \in {"list", "str"}

\* an add_decks that leaves out the decks the pool already holds
AddDecksResultOnlyNew(ds, arg) ==
    [decks |-> ds \o SelectSeq(arg.items,
                               LAMBDA m : \A i \in 1..Len(ds) : ds[i] # m),
     err |-> "none"]

\* add_decks, lines 306-312: += for an iterable; otherwise append, which
\* takes any object and so never raises the TypeError of line 311
AddDecksResult(ds, arg) ==
    IF Iterable(arg)
    THEN [decks |-> ds \o arg.items, err |-> "none"]
    ELSE [decks |-> Append(ds, arg.items[1]), err |-> "none"]

\* the smallest element of a non-empty set of numbers
Min(S) == CHOOSE x \in S : \A y \in S : x <= y

\* max_chunk_size taken as the largest of the decks' max_unique_pairs
MaxChunkSizeAsMax(ds) ==
    IF ds = <<>> THEN [status |-> "raised", value |-> 0, err |-> "ValueError"]
    ELSE IF \E i \in 1..Len(ds) : ds[i].kind # "Deck"
    THEN [status |-> "raised", value |-> 0, err |-> "AttributeError"]
    ELSE [status |-> "returned", err |-> "none",
          value |-> CHOOSE x \in {MaxUniquePairs(ds[i].deck) : i \in 1..Len(ds)} :
                      \A i \in 1..Len(ds) : MaxUniquePairs(ds[i].deck) <= x]

\* DeckPool.max_chunk_size, line 325: min() of an empty pool raises
\* ValueError, a member without max_unique_pairs raises AttributeError
MaxChunkSize(ds) ==
    IF ds = <<>> THEN [status |-> "raised", value |-> 0, err |-> "ValueError"]
    ELSE IF \E i \in 1..Len(ds) : ds[i].kind # "Deck"
    THEN [status |-> "raised", value |-> 0, err |-> "AttributeError"]
    ELSE [status |-> "returned", err |-> "none",
          value |-> Min({MaxUniquePairs(ds[i].deck) : i \in 1..Len(ds)})]

\* line 332: int(np.ceil(size[0] / self.num_decks))
ChunkSize(rows, n) == (rows + n - 1) \div n

\* an entry of np.empty(dtype='O') that was never assigned: None
Unset == <<"None">>

\* line 334: c = np.empty(size, dtype='O')
EmptyArray(sz) == [r \in 1..sz[1] |-> [j \in 1..sz[2] |-> Unset]]

PoolRaised(e) ==
    [status |-> "raised", c |-> <<>>, by |-> <<>>, calls |-> <<>>, err |-> e]
PoolHung ==
    [status |-> "hung", c |-> <<>>, by |-> <<>>, calls |-> <<>>,
     err |-> "none"]

\* the for loop of lines 335-343 from deck i on (i counts from 0 as in the
\* code): every way it can end.  by[r] is the position of the deck whose
\* result was stored in row r (0: none), calls the (i, i0, i1) of the calls
\* of deck.choice made so far
RECURSIVE PoolLoop(_, _, _, _, _, _, _, _)
PoolLoop(ds, i, sz, chunk, kw, cc, by, calls) ==
    IF i >= Len(ds)
    THEN {[status |-> "returned", c |-> cc, by |-> by, calls |-> calls,
           err |-> "none"]}
    ELSE LET i0 == i * chunk
             i1 == Min({(i + 1) * chunk, sz[1]})
             m  == ds[i + 1]
         IN  IF m.kind # "Deck" THEN {PoolRaised("AttributeError")}
             ELSE UNION {
                 IF o.status = "returned"
                 THEN LET c2 == [r \in 1..sz[1] |->
                                   IF i0 < r /\ r <= i1 THEN o.c[r - i0]
                                   ELSE cc[r]]
                          by2 == [r \in 1..sz[1] |->
                                    IF i0 < r /\ r <= i1 THEN i + 1
                                    ELSE by[r]]
                          calls2 == Append(calls, <<i, i0, i1>>)
                      IN  IF i1 = sz[1]
                          THEN {[status |-> "returned", c |-> c2,
                                 by |-> by2, calls |-> calls2,
                                 err |-> "none"]}
                          ELSE PoolLoop(ds, i + 1, sz, chunk, kw, c2, by2,
                                        calls2)
                 ELSE IF o.status = "hung" THEN {PoolHung}
                 ELSE {PoolRaised(o.err)} :
                 o \in ChoiceOutcomes(m.deck, <<i1 - i0, sz[2]>>,
                                      kw.n_in_deck, kw.n_not_in_deck,
                                      kw.force_unique, kw.no_lands)}

\* DeckPool.choice(sz, n_in_deck, n_not_in_deck, force_unique, no_lands):
\* every way it can end; the division of line 332 fails on an empty pool
PoolChoiceOutcomes(ds, sz, kw) ==
    IF Len(ds) = 0 THEN {PoolRaised("ZeroDivisionError")}
    ELSE PoolLoop(ds, 0, sz, ChunkSize(sz[1], Len(ds)), kw, EmptyArray(sz),
                  [r \in 1..sz[1] |-> 0], <<>>)

NoOp == [name |-> "none"]
NoRet == [status |-> "none"]

\* DeckPool.add_decks(arg)
AddDecks ==
    /\ ret.status = "none"
    /\ \E arg \in AddArgs :
         LET r == AddDecksResult(decks, arg)
         IN  /\ Len(r.decks) <= MaxDecks
             /\ decks' = r.decks
             /\ op' = [name |-> "add_decks", arg |-> arg, before |-> decks]
             /\ ret' = [status |-> IF r.err = "none" THEN "returned"
                                   ELSE "raised",
                        err |-> r.err]
    /\ UNCHANGED <<allcards, CARD_UNIVERSE, deck, ctor, callvars>>
    /\ UNCHANGED tagvars

\* reading DeckPool.max_chunk_size
MaxChunkSizeGet ==
    /\ ret.status = "none"
    /\ op' = [name |-> "max_chunk_size"]
    /\ ret' = MaxChunkSize(decks)
    /\ UNCHANGED <<decks, allcards, CARD_UNIVERSE, deck, ctor, callvars>>
    /\ UNCHANGED tagvars

\* DeckPool.choice
PoolChoice ==
    /\ ret.status = "none"
    /\ \E rows \in 0..MaxPoolRows, cols \in Columns,
          nin \in Splits, nnot \in Splits,
          fu \in BOOLEAN, nla \in NoLandsArgs :
         LET kw == [n_in_deck |-> nin, n_not_in_deck |-> nnot,
                    force_unique |-> fu, no_lands |-> nla]
         IN  /\ op' = [name |-> "choice", size |-> <<rows, cols>>, kw |-> kw]
             /\ ret' \in PoolChoiceOutcomes(decks, <<rows, cols>>, kw)
    /\ UNCHANGED <<decks, allcards, CARD_UNIVERSE, deck, ctor, callvars>>
    /\ UNCHANGED tagvars

\* the caller has the result or the exception
PoolExit ==
    /\ ret.status \in {"returned", "raised"}
    /\ op' = NoOp
    /\ ret' = NoRet
    /\ UNCHANGED <<decks, allcards, CARD_UNIVERSE, deck, ctor, callvars>>
    /\ UNCHANGED tagvars

-----------------------------------------------------------------------------
(* DeckSampler *)

\* the largest n asked of DeckSampler.sample
MaxN == 3

\* the fractions tried are the multiples k / FractionSteps, held as k,
\* from one step below 0 to one step above 1
FractionSteps == 2
Fractions == (0 - 1)..(FractionSteps + 1)

\* 0 <= f <= 1
InUnit(f) == 0 <= f /\ f <= FractionSteps

\* lines 371-377 without the test of the sum
SampleErrMsgNoSum(f_true, f_half) ==
    IF ~InUnit(f_half) THEN "f_half must be between 0 and 1"
    ELSE IF ~InUnit(f_true) THEN "f_true must be between 0 and 1"
    ELSE "None"

\* lines 371-377: err_msg after the three tests, each overwriting the last
SampleErrMsg(f_true, f_half) ==
    IF ~InUnit(f_true + f_half)
    THEN "f_true + f_half must be between 0 and 1"
    ELSE IF ~InUnit(f_half) THEN "f_half must be between 0 and 1"
    ELSE IF ~InUnit(f_true) THEN "f_true must be between 0 and 1"
    ELSE "None"

\* the count rounded to the nearest row
RowsOfNearest(n, f) == (2 * n * f + FractionSteps) \div (2 * FractionSteps)

\* lines 384-385: int(n * f), which cuts off the fraction
RowsOf(n, f) ==
    IF n * f >= 0 THEN (n * f) \div FractionSteps
    ELSE 0 - ((0 - n * f) \div FractionSteps)

\* labels that are 1 throughout
TargetAllOnes(n, ntrue) == [r \in 1..n |-> 1]

\* lines 402-403: zeros(n) with the first ntrue entries set to 1
Target(n, ntrue) == [r \in 1..n |-> IF r <= ntrue THEN 1 ELSE 0]

\* the blocks joined with the half block first
ConcatenateHalfFirst(t, h, f) == h \o t \o f

\* lines 388-400: np.concatenate([true, half, false], axis=0)
Concatenate(t, h, f) == t \o h \o f

SampleFailed(o, smp) ==
    [status |-> o.status, names |-> <<>>, target |-> <<>>, by |-> <<>>,
     block |-> <<>>, sampled |-> smp, err |-> o.err]

\* DeckSampler.sample(n, f_true, f_half, no_lands) on the pool ds and the
\* deck all: every way it can end.  The three calls are made in the order
\* of the list of lines 388-399, and the first that fails ends the call.
\* by[r] is the position of the pool deck that gave row r (0: allcards),
\* block[r] the call row r came from
SampleOutcomes(ds, all, n, f_true, f_half, nl) ==
    IF SampleErrMsg(f_true, f_half) # "None"
    THEN {SampleFailed(Raised("DeckError_fraction"), FALSE)}
    ELSE
    LET ntrue  == RowsOf(n, f_true)
        nhalf  == RowsOf(n, f_half)
        nfalse == n - ntrue - nhalf
        nla    == IF nl THEN "True" ELSE "False"
        kwt    == [n_in_deck |-> 2, n_not_in_deck |-> 0,
                   force_unique |-> TRUE, no_lands |-> nla]
        kwh    == [n_in_deck |-> 1, n_not_in_deck |-> 1,
                   force_unique |-> TRUE, no_lands |-> nla]
    IN  UNION {
          IF t.status # "returned" THEN {SampleFailed(t, TRUE)}
          ELSE UNION {
            IF h.status # "returned" THEN {SampleFailed(h, TRUE)}
            ELSE {IF f.status # "returned" THEN SampleFailed(f, TRUE)
                  ELSE [status |-> "returned",
                        names |-> Concatenate(t.c, h.c, f.c),
                        target |-> Target(n, ntrue),
                        by |-> Concatenate(t.by, h.by,
                                           [r \in 1..Len(f.c) |-> 0]),
                        block |-> Concatenate(
                                    [r \in 1..Len(t.c) |-> "true"],
                                    [r \in 1..Len(h.c) |-> "half"],
                                    [r \in 1..Len(f.c) |-> "false"]),
                        sampled |-> TRUE, err |-> "none"] :
                  f \in ChoiceOutcomes(all, <<nfalse, 2>>, 2, 0, TRUE, nla)} :
            h \in PoolChoiceOutcomes(ds, <<nhalf, 2>>, kwh)} :
          t \in PoolChoiceOutcomes(ds, <<ntrue, 2>>, kwt)}

\* the decks a sampler is given as allcards: Deck(all names), lands ignored
\* or not
AllcardsDecks ==
    {DeckOf({Ox, Fen, <<"A", "E">>}, ignore) : ignore \in BOOLEAN}

\* DeckSampler.sample
Sample ==
    /\ ret.status = "none"
    /\ \E n \in 0..MaxN, f_true \in Fractions, f_half \in Fractions,
          nl \in BOOLEAN :
         /\ op' = [name |-> "sample", n |-> n, f_true |-> f_true,
                   f_half |-> f_half, no_lands |-> nl]
         /\ ret' \in SampleOutcomes(decks, allcards, n, f_true, f_half, nl)
    /\ UNCHANGED <<decks, allcards, CARD_UNIVERSE, deck, ctor, callvars>>
    /\ UNCHANGED tagvars

-----------------------------------------------------------------------------
(* Tags (tags.py) *)

\* the largest number of keys, over all levels, of a taxonomy
MaxTags == 3

\* the most calls of child_parent_iter made on one Tags object
MaxTraversals == 2

\* the depth at which the interpreter ends a recursion with RecursionError;
\* no taxonomy of MaxTags keys nests that deep
RecursionLimit == MaxTags + 2

\* the tag names tried; the third holds the separator
TagA  == <<"a">>
TagB  == <<"b">>
TagAB == <<"a", ":", "b">>
TagNames == {TagA, TagB, TagAB}

\* the values of a taxonomy: null, a mapping (its items in the order the
\* dict iterates them), or something else (an int)
YamlNone == [kind |-> "None", items |-> <<>>]
YamlInt  == [kind |-> "int", items |-> <<>>]
YamlDict(items) == [kind |-> "dict", items |-> items]

\* the dicts (as item sequences) with at most n keys over all levels
RECURSIVE DictsUpTo(_)
DictsUpTo(n) ==
    {<<>>} \cup
    UNION { UNION { UNION {
        {<<[key |-> k, val |-> v]>> \o rest :
            k \in {x \in TagNames : \A i \in 1..Len(rest) : rest[i].key # x}} :
        v \in {YamlNone, YamlInt} \cup {YamlDict(d) : d \in DictsUpTo(m)} } :
        rest \in DictsUpTo(n - 1 - m) } :
        m \in 0..(n - 1) }

\* the yaml documents tried, less their '_yaml_variables' key
Taxonomies == DictsUpTo(MaxTags)

\* the root node
Mtg == <<"m", "t", "g">>

\* nx.DiGraph(): nodes and edges in the order they were added
NoGraph == [nodes |-> <<>>, edges |-> <<>>]

\* DiGraph.add_node
AddNode(g, n) ==
    IF \E i \in 1..Len(g.nodes) : g.nodes[i] = n THEN g
    ELSE [g EXCEPT !.nodes = Append(@, n)]

\* DiGraph.add_edge(u, v): adds u, then v, then the edge, each if new
AddEdge(g, u, v) ==
    LET g2 == AddNode(AddNode(g, u), v)
    IN  IF \E i \in 1..Len(g2.edges) : g2.edges[i] = <<u, v>> THEN g2
        ELSE [g2 EXCEPT !.edges = Append(@, <<u, v>>)]

\* line 104: '{}:{}'.format(parent_node, tag)
TagNode(parent_node, tag) == parent_node \o <<":">> \o tag

\* line 101: tagdict = tagdict or self._tagdict; None and {} are falsy
TagdictOr(items, root) == IF items = <<>> THEN root ELSE items

\* _tagdict_to_nodes(parent_node, tagdict) on the graph g, from item i of
\* the for loop of line 103 on; depth counts the frames of the recursion.
\* at is the frame after line 107: the graph with the edge added, and the
\* value the branches of lines 108-115 look at
RECURSIVE TagdictToNodes(_, _, _, _, _, _)
TagdictToNodes(g, parent_node, items, i, root, depth) ==
    IF i > Len(items) THEN [status |-> "built", g |-> g, err |-> "none"]
    ELSE
    LET tag_node == TagNode(parent_node, items[i].key)
        at == [g   |-> AddEdge(g, tag_node, parent_node),
               val |-> items[i].val]
    IN  IF at.val.kind = "None"
        THEN TagdictToNodes(at.g, parent_node, items, i + 1, root, depth)
        ELSE IF at.val.kind = "dict"
        THEN IF depth + 1 > RecursionLimit
             THEN [status |-> "raised", g |-> at.g, err |-> "RecursionError"]
             ELSE LET r == TagdictToNodes(at.g, tag_node,
                                          TagdictOr(at.val.items, root), 1,
                                          root, depth + 1)
                  IN  IF r.status = "raised" THEN r
                      ELSE TagdictToNodes(r.g, parent_node, items, i + 1,
                                          root, depth)
        ELSE [status |-> "raised", g |-> at.g, err |-> "MtgTagError"]

\* lines 92-94: pop '_yaml_variables', make the graph, build it from the
\* first call _tagdict_to_nodes() of lines 97-101
BuildTags(has_yaml_variables, root) ==
    IF ~has_yaml_variables
    THEN [status |-> "raised", g |-> NoGraph, err |-> "KeyError"]
    ELSE TagdictToNodes(AddNode(NoGraph, Mtg), Mtg, TagdictOr(<<>>, root), 1,
                        root, 1)

\* G.in_edges(n): the edges into n, in the order they were added
InEdges(g, n) == SelectSeq(g.edges, LAMBDA e : e[2] = n)

\* the while loop of nx.edge_dfs(G, source, orientation='reverse'): the
\* edges it yields.  iters[n] is what is left of the iterator over the edges
\* into n
RECURSIVE EdgeDfsLoop(_, _, _, _, _, _)
EdgeDfsLoop(g, stack, iters, visited_nodes, visited_edges, out) ==
    IF stack = <<>> THEN out
    ELSE
    LET current_node == stack[Len(stack)]
        its == IF current_node \in visited_nodes THEN iters
               ELSE [iters EXCEPT ![current_node] = InEdges(g, current_node)]
        vn  == visited_nodes \cup {current_node}
    IN  IF its[current_node] = <<>>
        THEN EdgeDfsLoop(g, SubSeq(stack, 1, Len(stack) - 1), its, vn,
                         visited_edges, out)
        ELSE LET edge == Head(its[current_node])
                 its2 == [its EXCEPT ![current_node] = Tail(@)]
             IN  IF edge \notin visited_edges
                 THEN EdgeDfsLoop(g, Append(stack, edge[1]), its2, vn,
                                  visited_edges \cup {edge},
                                  Append(out, edge))
                 ELSE EdgeDfsLoop(g, stack, its2, vn, visited_edges, out)

\* an iterator that stops after the edges into the root
ChildParentIterRootOnly(g) == InEdges(g, Mtg)

\* an iterator that yields the edges as the search unwinds, last found first
ChildParentIterUnwinding(g) ==
    LET out == EdgeDfsLoop(g, <<Mtg>>,
                           [n \in {g.nodes[i] : i \in 1..Len(g.nodes)} |-> <<>>],
                           {}, {}, <<>>)
    IN  [k \in 1..Len(out) |-> out[Len(out) + 1 - k]]

\* child_parent_iter, lines 117-119, read to its end: the (child, parent)
\* pairs of nx.edge_dfs(self.tags, 'mtg', orientation='reverse')
ChildParentIter(g) ==
    EdgeDfsLoop(g, <<Mtg>>,
                [n \in {g.nodes[i] : i \in 1..Len(g.nodes)} |-> <<>>],
                {}, {}, <<>>)

NoTret == [status |-> "none", err |-> "none"]
NoTrav == [n |-> 0, pairs |-> <<>>, prev |-> <<>>]

\* Tags(fyaml)
TagsInit ==
    /\ tret.status = "none"
    /\ \E has_yaml_variables \in BOOLEAN, root \in Taxonomies :
         LET r == BuildTags(has_yaml_variables, root)
         IN  /\ tagdict' = root
             /\ tags' = r.g
             /\ tret' = [status |-> r.status, err |-> r.err]
    /\ UNCHANGED <<trav, poolvars, CARD_UNIVERSE, deck, ctor, callvars>>

\* list(tags.child_parent_iter())
Traverse ==
    /\ tret.status = "built"
    /\ trav.n < MaxTraversals
    /\ trav' = [n |-> trav.n + 1, pairs |-> ChildParentIter(tags),
                prev |-> trav.pairs]
    /\ UNCHANGED <<tagdict, tags, tret, poolvars, CARD_UNIVERSE, deck, ctor,
                   callvars>>

\* no Tags object
TagIdle ==
    /\ tagdict = <<>>
    /\ tags = NoGraph
    /\ tret = NoTret
    /\ trav = NoTrav

Init ==
    /\ CARD_UNIVERSE = NoUniverse
    /\ deck = NoDeck
    /\ ctor = NoCtor
    /\ pc = "idle"
    /\ size = <<0, 0>>
    /\ n_in_deck = 0
    /\ n_not_in_deck = 0
    /\ force_unique = FALSE
    /\ no_lands_arg = "None"
    /\ no_lands = FALSE
    /\ c = <<>>
    /\ sampled = FALSE
    /\ err = "none"
    /\ decks = <<>>
    /\ allcards = NoDeck
    /\ op = NoOp
    /\ ret = NoRet
    /\ TagIdle

Next == Construct \/ GetCardUniverseCall \/ DeckChoice \/ Backfill \/ ChoiceExit

Spec == Init /\ [][Next]_vars
\* the backfill loop is scheduled as long as it can add a row
FairSpec == Spec /\ WF_vars(Backfill)

\* the Deck.choice variables while no bare Deck.choice call is made
DeckIdle ==
    /\ deck = NoDeck
    /\ ctor = NoCtor
    /\ pc = "idle"
    /\ size = <<0, 0>>
    /\ n_in_deck = 0
    /\ n_not_in_deck = 0
    /\ force_unique = FALSE
    /\ no_lands_arg = "None"
    /\ no_lands = FALSE
    /\ c = <<>>
    /\ sampled = FALSE
    /\ err = "none"

\* an empty DeckPool(); the decks it will be given were constructed
\* before, so the memo is built
PoolInit ==
    /\ CARD_UNIVERSE = BuiltUniverse
    /\ DeckIdle
    /\ decks = <<>>
    /\ allcards = NoDeck
    /\ op = NoOp
    /\ ret = NoRet
    /\ TagIdle

PoolNext == AddDecks \/ MaxChunkSizeGet \/ PoolChoice \/ PoolExit

PoolSpec == PoolInit /\ [][PoolNext]_vars

\* DeckSampler(DeckPool(), allcards)
SamplerInit ==
    /\ CARD_UNIVERSE = BuiltUniverse
    /\ DeckIdle
    /\ decks = <<>>
    /\ allcards \in AllcardsDecks
    /\ op = NoOp
    /\ ret = NoRet
    /\ TagIdle

SamplerNext == AddDecks \/ Sample \/ PoolExit

SamplerSpec == SamplerInit /\ [][SamplerNext]_vars

\* no Tags object yet; nothing of decks.py is in use
TagInit ==
    /\ CARD_UNIVERSE = NoUniverse
    /\ DeckIdle
    /\ decks = <<>>
    /\ allcards = NoDeck
    /\ op = NoOp
    /\ ret = NoRet
    /\ TagIdle

TagNext == TagsInit \/ Traverse

TagSpec == TagInit /\ [][TagNext]_vars

-----------------------------------------------------------------------------
(* Properties *)

CardSet(d) == Range(d.cardnames)

RowsDistinct(a) == \A i, j \in 1..Len(a) : a[i] = a[j] => i = j

\* C1: whenever Deck.choice((k,2), force_unique=True) returns (k is then at
\* most max_unique_pairs), the result has exactly k rows, no two rows are
\* equal, and every value is one of the deck's card names.
C1_UniquePairs ==
    (pc = "returned" /\ force_unique /\ size[2] = 2
        /\ n_in_deck = 2 /\ n_not_in_deck = 0)
    => /\ size[1] <= NumCards(deck) * (NumCards(deck) - 1)
       /\ Len(c) = size[1]
       /\ RowsDistinct(c)
       /\ \A i \in 1..Len(c) : \A j \in 1..2 : c[i][j] \in CardSet(deck)

C1_Witness ==
    /\ pc = "returned" /\ force_unique /\ size = <<2, 2>>
    /\ n_in_deck = 2 /\ n_not_in_deck = 0
    /\ NumCards(deck) = 2
    /\ Len(c) = 2

\* C2: a force_unique request of k rows by 2 columns with k above
\* max_unique_pairs ends in the capacity DeckError, and np.random.choice has
\* not been called.
C2_CapacityError ==
    (pc # "idle" /\ force_unique /\ size[2] = 2
        /\ n_in_deck + n_not_in_deck = 2
        /\ size[1] > Len(deck.cardnames) * (Len(deck.cardnames) - 1))
    => (pc = "raised" /\ err = "DeckError_capacity" /\ ~sampled /\ c = <<>>)

C2_Witness ==
    /\ pc = "raised" /\ err = "DeckError_capacity"
    /\ Len(deck.cardnames) = 1 /\ size = <<1, 2>>

\* C3: a 2-column force_unique request with rows <= max_unique_pairs that
\* has entered the backfill loop leaves it, for every split and either
\* no_lands, when the loop is scheduled fairly.  (A pass of the loop whose
\* batch holds no new row leaves c as it is: the loop then spins without
\* changing the state.)
C3_BackfillTerminates ==
    (pc = "loop" /\ size[2] = 2 /\ size[1] <= MaxUniquePairs(deck))
        ~> (pc # "loop")

\* C4: a call with n_in_deck + n_not_in_deck different from size[1] ends in
\* the shape DeckError, whatever force_unique is, and nothing was sampled.
C4_ShapeError ==
    (pc # "idle" /\ n_in_deck + n_not_in_deck # size[2])
    => (pc = "raised" /\ err = "DeckError_shape" /\ ~sampled /\ c = <<>>)

C4_Witness ==
    /\ pc = "raised" /\ err = "DeckError_shape" /\ ~force_unique
    /\ size[1] > 0 /\ NumCards(deck) > 0

\* C5: in every returned array, whatever force_unique is, the first
\* n_in_deck columns hold cards of the deck and the remaining columns hold
\* cards of the deck's complement.
C5_ColumnsBySide ==
    pc = "returned"
    => \A i \in 1..Len(c) : \A j \in 1..size[2] :
         IF j <= n_in_deck
         THEN c[i][j] \in CardSet(deck)
         ELSE c[i][j] \in Range(deck.compliment_cardnames)

\* C6: the no_lands argument alone selects the population of a force_unique
\* draw: False draws from cardnames and compliment_cardnames, True from the
\* non-land arrays, whatever the deck's ignore_lands is.
C6_NoLandsArgSelects ==
    (pc \in {"loop", "returned"} /\ force_unique /\ no_lands_arg # "None"
        /\ Len(c) > 0)
    => /\ PopIn(deck, no_lands) =
            IF no_lands_arg = "True" THEN deck.nonland_cardnames
            ELSE deck.cardnames
       /\ PopNot(deck, no_lands) =
            IF no_lands_arg = "True"
            THEN deck.nonland_compliment_cardnames
            ELSE deck.compliment_cardnames

\* C7: in every constructed Deck, card_names and dropped_card_names are
\* disjoint and card_names is a subset of the deck's universe.
C7_CardsInUniverse ==
    deck.built
    => /\ CardSet(deck) \cap deck.dropcards = {}
       /\ CardSet(deck) \subseteq deck.card_universe

C7_Witness ==
    deck.built /\ deck.dropcards # {} /\ NumCards(deck) > 0

\* C8: in every constructed Deck, complement_card_names is the universe
\* minus card_names: the two are disjoint and together make the universe.
C8_Complement ==
    deck.built
    => /\ Range(deck.compliment_cardnames) = deck.card_universe \ CardSet(deck)
       /\ Range(deck.compliment_cardnames) \cap CardSet(deck) = {}
       /\ Range(deck.compliment_cardnames) \cup CardSet(deck) = deck.card_universe
       /\ Len(deck.compliment_cardnames) + Len(deck.cardnames)
            = Cardinality(deck.card_universe)

C8_Witness ==
    /\ deck.built /\ NumCards(deck) > 0
    /\ Len(deck.compliment_cardnames) > 0
    /\ \E n \in CardSet(deck) : n \in Lands

\* C9: construction completes whatever names the universe does not know, and
\* every cleaned input name is in exactly one of card_names (when the
\* universe has it) and dropped_card_names (when it has not).
C9_DroppedNotRaised ==
    ctor.live
    => /\ deck.built
       /\ CardSet(deck) \cup deck.dropcards = ctor.cleaned
       /\ \A n \in ctor.cleaned :
            IF n \in deck.card_universe
            THEN n \in CardSet(deck) /\ n \notin deck.dropcards
            ELSE n \in deck.dropcards /\ n \notin CardSet(deck)

C9_Witness ==
    /\ ctor.live
    /\ \E n \in ctor.cleaned : n \notin deck.card_universe
    /\ \E n \in ctor.cleaned : n \in deck.card_universe

\* C10: a Deck constructed from the same raw names and the same universe as
\* the Deck before it has the same card_names set and the same
\* dropped_card_names set, whatever the order of the arrays.
C10_SameInputSameCards ==
    [][(ctor.live /\ ctor'.live
          /\ ctor'.cardnames = ctor.cardnames
          /\ ctor'.card_universe = ctor.card_universe)
       => (CardSet(deck') = CardSet(deck) /\ deck'.dropcards = deck.dropcards)]_vars

C10_Witness ==
    /\ ctor.live /\ ctor.rebuilt
    /\ NumCards(deck) >= 2
    /\ deck.dropcards # {}
\* C11: from the moment Deck.choice is entered until its caller has the
\* result, no attribute of the deck (name, card_universe, ignore_lands, the
\* four arrays, the dropped cards) changes.
C11_ChoiceLeavesDeck ==
    [][(pc # "idle" \/ pc' # "idle") => deck' = deck]_vars

\* a unique-pairs call that returned two rows
C11_Witness ==
    /\ pc = "returned"
    /\ force_unique
    /\ Len(c) > 1
    /\ Len(deck.cardnames) > 0

\* Deck.choice, taken step by step, ends in one of the ways ChoiceOutcomes
\* lists for the same call; a loop that ChoiceOutcomes says never returns
\* has no row left to find
ChoiceOutcomesAgree ==
    LET outs == ChoiceOutcomes(deck, size, n_in_deck, n_not_in_deck,
                               force_unique, no_lands_arg)
    IN  /\ pc = "returned" => Returned(c) \in outs
        /\ pc = "raised" => Raised(err) \in outs
        /\ pc = "loop" =>
             (Hung \in outs) # (\E o \in outs : o.status = "returned")

\* every member of the pool is a Deck
AllDecks == \A i \in 1..Len(decks) : decks[i].kind = "Deck"

\* ceil(a / b) for a >= 0 and b > 0
CeilDiv(a, b) == CHOOSE q \in 0..a : q * b >= a /\ (q = 0 \/ (q - 1) * b < a)

\* the rows [lo, hi) that deck i (from 0) is to fill, c rows to a deck
BlockLo(i, k, n) == i * CeilDiv(k, n)
BlockHi(i, k, n) ==
    IF (i + 1) * CeilDiv(k, n) < k THEN (i + 1) * CeilDiv(k, n) ELSE k

\* a DeckPool.choice((k, 2)) call with the defaults n_in_deck=2,
\* n_not_in_deck=0, force_unique=True
DefaultPoolChoice ==
    /\ op.name = "choice"
    /\ op.size[2] = 2
    /\ op.kw.n_in_deck = 2
    /\ op.kw.n_not_in_deck = 0
    /\ op.kw.force_unique

\* C12: for a non-empty pool of decks and a k whose blocks stay within each
\* deck's max_unique_pairs, DeckPool.choice((k,2)) returns k rows, and row r
\* was produced by the deck of the block r lies in, in insertion order.
C12_PoolBlocks ==
    ( /\ DefaultPoolChoice
      /\ op.kw.no_lands = "None"
      /\ decks # <<>>
      /\ AllDecks
      /\ \A i \in 0..(Len(decks) - 1) :
            BlockHi(i, op.size[1], Len(decks)) - BlockLo(i, op.size[1], Len(decks))
                <= MaxUniquePairs(decks[i + 1].deck) )
    => ( /\ ret.status = "returned"
         /\ Len(ret.c) = op.size[1]
         /\ \A r \in 1..op.size[1] :
              ret.by[r] = ((r - 1) \div CeilDiv(op.size[1], Len(decks))) + 1 )

\* C13: a DeckPool.choice with rows >= num_decks that returns has called
\* every member deck once, deck i for rows [i*c, min((i+1)*c, rows)), every
\* block non-empty and only the last one shorter than c = ceil(rows/n).
C13_EveryDeckOnce ==
    ( /\ op.name = "choice"
      /\ ret.status = "returned"
      /\ decks # <<>>
      /\ AllDecks
      /\ op.size[1] >= Len(decks) )
    => LET n == Len(decks)
           k == op.size[1]
       IN  /\ Len(ret.calls) = n
           /\ \A i \in 0..(n - 1) :
                /\ ret.calls[i + 1] = <<i, i * CeilDiv(k, n), BlockHi(i, k, n)>>
                /\ BlockHi(i, k, n) > i * CeilDiv(k, n)
                /\ i < n - 1 => BlockHi(i, k, n) - i * CeilDiv(k, n) = CeilDiv(k, n)

\* C14: add_decks given neither a Deck nor a list of Decks raises DeckError
\* and leaves the member list as it was.
C14_AddRejects ==
    (op.name = "add_decks" /\ op.arg.kind \notin {"Deck", "list"})
    => (ret.status = "raised" /\ ret.err = "DeckError" /\ decks = op.before)

\* C15: on a non-empty pool of decks max_chunk_size is the least of the
\* decks' max_unique_pairs, and a two-column in-deck force_unique
\* DeckPool.choice whose chunk ceil(rows/num_decks) is at most that value
\* does not end in the capacity error.
C15_MaxChunkSafe ==
    (decks # <<>> /\ AllDecks) =>
        /\ op.name = "max_chunk_size" =>
             /\ ret.status = "returned"
             /\ \A i \in 1..Len(decks) :
                  ret.value <= MaxUniquePairs(decks[i].deck)
             /\ \E i \in 1..Len(decks) :
                  ret.value = MaxUniquePairs(decks[i].deck)
        /\ ( /\ DefaultPoolChoice
             /\ \A i \in 1..Len(decks) :
                  CeilDiv(op.size[1], Len(decks))
                      <= MaxUniquePairs(decks[i].deck) )
           => ~(ret.status = "raised" /\ ret.err = "DeckError_capacity")

\* two decks of two cards each gave two rows each
C15_Witness ==
    /\ DefaultPoolChoice
    /\ ret.status = "returned"
    /\ Len(decks) = 2
    /\ AllDecks
    /\ op.size[1] = 4

\* floor(n * f) for the fraction f / FractionSteps, by its definition
FloorOf(n, f) ==
    CHOOSE q \in 0..(n * (FractionSteps + 1)) :
        q * FractionSteps <= n * f /\ n * f < (q + 1) * FractionSteps

\* the rows of the returned names that came from one of the three calls
RowsFrom(b) == {r \in 1..Len(ret.block) : ret.block[r] = b}

\* the cards of the pool deck that gave row r
GiverCards(r) == Range(decks[ret.by[r]].deck.cardnames)

\* C16: sample with f_true, f_half or their sum outside [0,1] raises the
\* fraction DeckError, and no pool or deck sampling call was made before.
C16_BadFractionsRejected ==
    ( /\ op.name = "sample"
      /\ \/ op.f_true < 0 \/ op.f_true > FractionSteps
         \/ op.f_half < 0 \/ op.f_half > FractionSteps
         \/ op.f_true + op.f_half < 0
         \/ op.f_true + op.f_half > FractionSteps )
    => ( /\ ret.status = "raised"
         /\ ret.err = "DeckError_fraction"
         /\ ~ret.sampled )

\* each fraction is within [0,1] and the sum is not
C16_Witness ==
    /\ op.name = "sample"
    /\ op.f_true >= 0 /\ op.f_true <= FractionSteps
    /\ op.f_half >= 0 /\ op.f_half <= FractionSteps
    /\ op.f_true + op.f_half > FractionSteps
    /\ op.n > 0
    /\ Len(decks) > 0
    /\ ret.status = "raised"

\* C17: a sample(n, ...) that returns gives n rows and n labels:
\* floor(n*f_true) rows of the true pool call, floor(n*f_half) rows of the
\* half pool call, and the n_false >= 0 others from the universe deck.
C17_RowCounts ==
    (op.name = "sample" /\ ret.status = "returned")
    => ( /\ Len(ret.names) = op.n
         /\ Len(ret.target) = op.n
         /\ Cardinality(RowsFrom("true")) = FloorOf(op.n, op.f_true)
         /\ Cardinality(RowsFrom("half")) = FloorOf(op.n, op.f_half)
         /\ Cardinality(RowsFrom("false"))
               = op.n - FloorOf(op.n, op.f_true) - FloorOf(op.n, op.f_half)
         /\ Cardinality(RowsFrom("false")) >= 0
         /\ \A r \in 1..op.n : ret.by[r] = 0 <=> ret.block[r] = "false" )

\* n = 3 with both fractions 1/2: one row of each kind
C17_Witness ==
    /\ op.name = "sample"
    /\ ret.status = "returned"
    /\ op.n = 3
    /\ 2 * op.f_true = FractionSteps
    /\ 2 * op.f_half = FractionSteps
    /\ Len(ret.names) = 3

\* C18: in the labels sample returns, the first floor(n*f_true) are 1 and
\* all others 0; every half row and every false row is labelled 0.
C18_Labels ==
    (op.name = "sample" /\ ret.status = "returned")
    => \A r \in 1..op.n :
         /\ ret.target[r] = IF r <= FloorOf(op.n, op.f_true) THEN 1 ELSE 0
         /\ ret.block[r] \in {"half", "false"} => ret.target[r] = 0

\* a returned sample with a true row, a half row and a false row
C18_Witness ==
    /\ op.name = "sample"
    /\ ret.status = "returned"
    /\ RowsFrom("true") # {}
    /\ RowsFrom("half") # {}
    /\ RowsFrom("false") # {}

\* C19: the rows sample returns are the true rows, then the half rows,
\* then the false rows: a true row has both cards in the pool deck that gave
\* it, a half row its first card in that deck and its second outside it, a
\* false row both cards in the allcards deck.
C19_BlockOrder ==
    (op.name = "sample" /\ ret.status = "returned")
    => LET nt == FloorOf(op.n, op.f_true)
           nh == FloorOf(op.n, op.f_half)
       IN  \A r \in 1..op.n :
             IF r <= nt
             THEN /\ ret.by[r] \in 1..Len(decks)
                  /\ ret.names[r][1] \in GiverCards(r)
                  /\ ret.names[r][2] \in GiverCards(r)
             ELSE IF r <= nt + nh
             THEN /\ ret.by[r] \in 1..Len(decks)
                  /\ ret.names[r][1] \in GiverCards(r)
                  /\ ret.names[r][2] \notin GiverCards(r)
             ELSE /\ ret.by[r] = 0
                  /\ ret.names[r][1] \in Range(allcards.cardnames)
                  /\ ret.names[r][2] \in Range(allcards.cardnames)

\* a returned sample of three rows, one of each kind, from a pool of two
\* decks
C19_Witness ==
    /\ op.name = "sample"
    /\ ret.status = "returned"
    /\ Len(decks) = 2
    /\ Len(ret.names) = 3
    /\ ret.block = <<"true", "half", "false">>

\* C20: no two true rows of a returned sample are equal.
C20_TrueRowsUnique ==
    (op.name = "sample" /\ ret.status = "returned")
    => \A r1, r2 \in RowsFrom("true") :
         ret.names[r1] = ret.names[r2] => r1 = r2

\* every value of the mapping, at every level, is a mapping or null
RECURSIVE NestedTaxonomy(_)
NestedTaxonomy(items) ==
    \A i \in 1..Len(items) :
        \/ items[i].val.kind = "None"
        \/ items[i].val.kind = "dict" /\ NestedTaxonomy(items[i].val.items)

\* the number of keys of the mapping over all levels
RECURSIVE NumKeys(_)
NumKeys(items) ==
    IF items = <<>> THEN 0
    ELSE 1 + NumKeys(Head(items).val.items) + NumKeys(Tail(items))

\* <<path of the key, path of its parent>> for every key of the mapping,
\* the mapping itself sitting at the path prefix
RECURSIVE KeyEdges(_, _)
KeyEdges(items, prefix) ==
    UNION {{<<prefix \o <<":">> \o items[i].key, prefix>>}
           \cup KeyEdges(items[i].val.items,
                         prefix \o <<":">> \o items[i].key) :
           i \in 1..Len(items)}

NodeSet == {tags.nodes[i] : i \in 1..Len(tags.nodes)}
EdgeSet == {tags.edges[i] : i \in 1..Len(tags.edges)}

\* a Tags object was built from a document holding '_yaml_variables'
TagsMade == tret.status # "none" /\ tret.err # "KeyError"

\* C21: from a nested taxonomy (values mappings or null) the graph is built
\* with the nodes mtg and one colon-joined path per key, and the edges
\* (path of key, path of parent) and no others: one outgoing edge per
\* non-root node, none from the root, no cycle.
C21_TreeOfPaths ==
    (TagsMade /\ NestedTaxonomy(tagdict))
    => ( /\ tret.status = "built"
         /\ NodeSet = {Mtg} \cup {e[1] : e \in KeyEdges(tagdict, Mtg)}
         /\ Cardinality(NodeSet) = 1 + NumKeys(tagdict)
         /\ EdgeSet = KeyEdges(tagdict, Mtg)
         /\ \A n \in NodeSet \ {Mtg} :
              Cardinality({e \in EdgeSet : e[1] = n}) = 1
         /\ \A e \in EdgeSet : e[1] # Mtg /\ Len(e[2]) < Len(e[1]) )

\* some value of the mapping, at some level, is an empty mapping
RECURSIVE HasEmptyMapping(_)
HasEmptyMapping(items) ==
    \E i \in 1..Len(items) :
        /\ items[i].val.kind = "dict"
        /\ \/ items[i].val.items = <<>>
           \/ HasEmptyMapping(items[i].val.items)

\* C22: building from a taxonomy in which some value, at any depth, is
\* neither a mapping nor null raises MtgTagError.
C22_BadValueRaises ==
    (TagsMade /\ ~NestedTaxonomy(tagdict))
    => (tret.status = "raised" /\ tret.err = "MtgTagError")

\* with no empty mapping in the taxonomy, a value that is neither a mapping
\* nor null does raise MtgTagError
BadValueRaisesWithoutEmptyMapping ==
    (TagsMade /\ ~NestedTaxonomy(tagdict) /\ ~HasEmptyMapping(tagdict))
    => (tret.status = "raised" /\ tret.err = "MtgTagError")

\* the pairs of a traversal, as a set
PairSet(pairs) == {pairs[i] : i \in 1..Len(pairs)}

\* C23: a call of child_parent_iter leaves the graph as it was and yields
\* each of its edges exactly once, as (child, parent) with the child (the
\* longer path, one tag under the parent) first; a second call on the same
\* graph yields the same set of pairs.
C23_TraverseEachEdgeOnce ==
    [][ trav'.n = trav.n + 1
        => /\ tags' = tags
           /\ PairSet(trav'.pairs) = EdgeSet
           /\ Len(trav'.pairs) = Cardinality(EdgeSet)
           /\ \A k \in 1..Len(trav'.pairs) :
                \E tag \in TagNames :
                    trav'.pairs[k][1] = TagNode(trav'.pairs[k][2], tag)
           /\ trav.n >= 1 => PairSet(trav'.pairs) = PairSet(trav.pairs) ]_vars

\* a graph of three edges was traversed twice
C23_Witness ==
    /\ tret.status = "built"
    /\ trav.n = 2
    /\ Len(tags.edges) = 3
    /\ Len(trav.pairs) = 3
    /\ Len(trav.prev) = 3

\* every node but the root has one outgoing edge
OneParentEach ==
    \A n \in NodeSet \ {Mtg} : Cardinality({e \in EdgeSet : e[1] = n}) = 1

C30_BuildTerminates ==
    TagsMade => tret.err # "RecursionError"

\* the recursion runs on only from a taxonomy holding an empty mapping
RecursionOnlyFromEmptyMapping ==
    (TagsMade /\ tret.err = "RecursionError") => HasEmptyMapping(tagdict)

\* C25: every row of an array returned by Deck.choice((k, 2), n_in_deck=2)
\* pairs two different cards of the deck.
C25_PairsOfDistinctCards ==
    (pc = "returned" /\ size[2] = 2 /\ n_in_deck = 2 /\ n_not_in_deck = 0)
    => \A r \in 1..Len(c) :
         /\ c[r][1] # c[r][2]
         /\ {c[r][1], c[r][2]} \subseteq Range(PopIn(deck, no_lands))

\* C26: for every Deck, the empty and the one-card deck included, num_cards
\* is the number of its card names and max_unique_pairs is
\* num_cards * (num_cards - 1), the number of ordered pairs of two
\* different card names, and not negative.
C26_Counts ==
    deck.built
    => LET names == Range(deck.cardnames)
           n     == Cardinality(names)
       IN  /\ NumCards(deck) = n
           /\ MaxUniquePairs(deck) = n * (n - 1)
           /\ MaxUniquePairs(deck) =
                Cardinality({p \in names \X names : p[1] # p[2]})
           /\ MaxUniquePairs(deck) >= 0

\* an empty deck was constructed
C26_Witness ==
    /\ deck.built
    /\ deck.cardnames = <<>>
    /\ MaxUniquePairs(deck) = 0

\* a deck of one card was constructed
OneCardDeck ==
    /\ deck.built
    /\ Len(deck.cardnames) = 1
    /\ MaxUniquePairs(deck) = 0

\* C27: the universe is built at most once.  A step that finds no memo
\* leaves either none or the one built from the card data; a step that
\* finds the memo leaves it as it is, get_card_universe returns its two
\* sets, and a Deck constructed without a universe of its own takes the
\* memo's with-lands set.
C27_BuiltOnce ==
    [][ /\ ~CARD_UNIVERSE.built
           => \/ CARD_UNIVERSE' = CARD_UNIVERSE
              \/ CARD_UNIVERSE' = [built |-> TRUE,
                                   no_lands |-> AllCardNames(TRUE),
                                   w_lands |-> AllCardNames(FALSE)]
        /\ CARD_UNIVERSE.built
           => /\ CARD_UNIVERSE' = CARD_UNIVERSE
              /\ \A k \in {"no_lands", "w_lands"} :
                   GetCardUniverse(CARD_UNIVERSE', k) = CARD_UNIVERSE[k]
              /\ (ctor'.live /\ ctor'.card_universe = {})
                 => deck'.card_universe = CARD_UNIVERSE.w_lands ]_vars

\* two Decks were constructed one after the other without a universe of
\* their own: the second found the memo the first had built
C27_Witness ==
    /\ CARD_UNIVERSE.built
    /\ ctor.live
    /\ ctor.rebuilt
    /\ ctor.card_universe = {}
    /\ deck.card_universe = CARD_UNIVERSE.w_lands

\* C28: an add_decks call given a Deck or a list of Decks returns, and
\* leaves as member list the list it found followed by the Deck, or by the
\* Decks of the list in list order; num_decks (the length of the member
\* list) grows by the number of decks given.  Call after call the member
\* list is therefore the concatenation of what was added, in call order.
C28_AddAppendsInOrder ==
    (op.name = "add_decks" /\ op.arg.kind \in {"Deck", "list"})
    => /\ ret.status = "returned"
       /\ Len(decks) = Len(op.before) + Len(op.arg.items)
       /\ \A i \in 1..Len(op.before) : decks[i] = op.before[i]
       /\ \A i \in 1..Len(op.arg.items) :
            decks[Len(op.before) + i] = op.arg.items[i]

\* a list of two Decks, the first of them in the pool already, was added to
\* a pool of one Deck
C28_Witness ==
    /\ op.name = "add_decks"
    /\ op.arg.kind = "list"
    /\ Len(op.before) = 1
    /\ Len(op.arg.items) = 2
    /\ op.arg.items[1] = op.before[1]
    /\ op.arg.items[2] # op.before[1]
    /\ Len(decks) = 3

\* C29: at every test of the backfill loop of a force_unique call the rows
\* of c are pairwise distinct and fewer than the rows asked for; a pass of
\* the loop keeps the rows c had, adds at most size[0] - c.shape[0] rows
\* (its batch has that many rows, each of size[1] columns), and leaves rows
\* that are pairwise distinct, no fewer than before and no more than asked
\* for.
C29_BackfillLoop ==
    [][ pc = "loop"
        => /\ force_unique
           /\ RowsDistinct(c)
           /\ Len(c) < size[1]
           /\ c' # c
              => LET shortfall == size[1] - Len(c)
                     new       == Range(c') \ Range(c)
                 IN  /\ pc' \in {"loop", "returned"}
                     /\ RowsDistinct(c')
                     /\ Len(c') >= Len(c)
                     /\ Len(c') <= size[1]
                     /\ Range(c) \subseteq Range(c')
                     /\ Cardinality(new) <= shortfall
                     /\ \A r \in new : Len(r) = size[2]
                     /\ \E b \in [1..shortfall -> new \cup Range(c)] :
                          c' = Unique(c \o b) ]_vars

\* the loop is at its test with one row found and one still to find
C29_Witness ==
    /\ pc = "loop"
    /\ force_unique
    /\ size[1] = 2
    /\ Len(c) = 1

=============================================================================
